---------------------------- MODULE Spec2Model ----------------------------
(***************************************************************************)
(* The shopping list of redux-map-dispatch-to-props-code-along as a state  *)
(* machine: the action creators and the reducer (translated from the       *)
(* JavaScript), the form component and the App container, and the store    *)
(* that carries a command from the container to the reducer and the new    *)
(* state to its observers.                                                 *)
(*                                                                         *)
(* JavaScript values are tagged records: a string is its sequence of       *)
(* characters, an array is a reference into the heap (arrays have an       *)
(* identity, so that writing into one is visible to whoever holds it), an  *)
(* Item is an object with a description and, when seeded, an id.           *)
(***************************************************************************)
EXTENDS Integers, Sequences, FiniteSets, TLC

VARIABLES
  heap,          \* the arrays allocated so far: heap[r] is the content of array r
  storeState,    \* the store's shoppingListItems: a reference to an array (or undefined)
  stack,         \* the dispatch calls in progress, innermost first
  listeners,     \* the subscribed observers, in subscription order
  notified,      \* the observers invoked so far by the dispatch in progress
  unsubscribed,  \* the observers that subscribed once and have unsubscribed since
  inputValue,    \* the value of the form's text input
  threw,         \* whether the last call of the reducer threw
  nDispatch,     \* how many commands have been dispatched
  reducerDef,    \* which definition of the reducer the store was created with
  props,         \* the props connect passes to App, from mapStateToProps
  submitLog,     \* the form's submissions: what was in the field, what was handed over
  typedSince,    \* whether the user has typed since the last submission
  dispatched,    \* the commands dispatched so far, in order
  got            \* what getState has returned since the last dispatch

vars == <<heap, storeState, stack, listeners, notified, unsubscribed,
          inputValue, threw, nDispatch, reducerDef, props, submitLog,
          typedSince, dispatched, got>>

---------------------------------------------------------------------------
(* Bounds of the model. *)

MaxDispatch == 3
MaxObservers == 2
MaxLen == 2

---------------------------------------------------------------------------
(* JavaScript values. *)

Undefined == [t |-> "undefined"]

Str(chars) == [t |-> "string", chars |-> chars]

Arr(ref) == [t |-> "array", ref |-> ref]

milk == <<"m", "i", "l", "k">>

cookies == <<"c", "o", "o", "k", "i", "e", "s">>

sprinkles == <<"s", "p", "r", "i", "n", "k", "l", "e", "s">>

chocolate == <<"c", "h", "o", "c", "o", "l", "a", "t", "e">>

(* What a user may have typed into the form's input: nothing, a word, the  *)
(* same word with a blank on either side.                                  *)
Texts == {<<>>, chocolate, <<" ">> \o chocolate \o <<" ">>}

Observers == 1..MaxObservers

---------------------------------------------------------------------------
(* The action creators. *)

(* const items = [{id: 1, description: "milk"}, ...]                       *)
items ==
  << [t |-> "object", id |-> 1, description |-> Str(milk)],
     [t |-> "object", id |-> 2, description |-> Str(cookies)],
     [t |-> "object", id |-> 3, description |-> Str(sprinkles)] >>

(* getShoppingListItems declares no parameter: whatever it is called with  *)
(* (args) is ignored.  Each call allocates its items array anew.  The      *)
(* result is the heap after the call and the command returned.             *)
getShoppingListItems(h, args) ==
  [heap |-> Append(h, items),
   action |-> [type |-> "GET_SHOPPING_LIST_ITEMS", payload |-> Arr(Len(h) + 1)]]

\* Faulty variant: the description is not wrapped in an Item.
addShoppingListItemBare(newItemDescription) ==
  [type |-> "ADD_SHOPPING_LIST_ITEM", payload |-> newItemDescription]

addShoppingListItem(newItemDescription) ==
  LET newItem == [t |-> "object", description |-> newItemDescription]
  IN  [type |-> "ADD_SHOPPING_LIST_ITEM", payload |-> newItem]

---------------------------------------------------------------------------
(* The reducer.  Each part gives the heap after it and what it yields.     *)

(* state = []: an empty array is allocated when the caller passes          *)
(* undefined.                                                              *)
\* Faulty variant: no default value for state.
DefaultStateNone(h, stateArg) ==
  [heap |-> h, state |-> stateArg]

DefaultState(h, stateArg) ==
  IF stateArg = Undefined
  THEN [heap |-> Append(h, <<>>), state |-> Arr(Len(h) + 1)]
  ELSE [heap |-> h, state |-> stateArg]

(* case 'GET_SHOPPING_LIST_ITEMS': return action.payload                   *)
\* Faulty variant: [...state, ...action.payload].
CaseGetMerges(h, state, action) ==
  [heap |-> Append(h, h[state.ref] \o h[action.payload.ref]),
   value |-> Arr(Len(h) + 1), threw |-> FALSE]

CaseGetShoppingListItems(h, state, action) ==
  [heap |-> h, value |-> action.payload, threw |-> FALSE]

(* case 'ADD_SHOPPING_LIST_ITEM': return [...state, action.payload]        *)
(* The spread allocates a new array from the elements of state: those of   *)
(* an array, or the characters of a string, each a string of its own; it   *)
(* throws a TypeError when state is not iterable (undefined cannot reach   *)
(* it, an object can).                                                     *)
Iterable(state) == state.t \in {"array", "string"}

Spread(h, state) ==
  IF state.t = "array" THEN h[state.ref]
  ELSE [i \in 1..Len(state.chars) |-> Str(<<state.chars[i]>>)]

\* Faulty variant: [action.payload, ...state].
CaseAddPrepends(h, state, action) ==
  [heap |-> Append(h, <<action.payload>> \o h[state.ref]),
   value |-> Arr(Len(h) + 1), threw |-> FALSE]

\* Faulty variant: state.push(action.payload); return state.
CaseAddPushes(h, state, action) ==
  [heap |-> [h EXCEPT ![state.ref] = Append(@, action.payload)],
   value |-> state, threw |-> FALSE]

\* Faulty variant: [action.payload], the spread of state left out.
CaseAddReplaces(h, state, action) ==
  [heap |-> Append(h, <<action.payload>>),
   value |-> Arr(Len(h) + 1), threw |-> FALSE]

CaseAddShoppingListItem(h, state, action) ==
  IF Iterable(state)
  THEN [heap |-> Append(h, Append(Spread(h, state), action.payload)),
        value |-> Arr(Len(h) + 1), threw |-> FALSE]
  ELSE [heap |-> h, value |-> Undefined, threw |-> TRUE]

(* default: return state                                                   *)
\* Faulty variant: the default branch throws.
CaseDefaultThrows(h, state, action) ==
  [heap |-> h, value |-> Undefined, threw |-> TRUE]

CaseDefault(h, state, action) ==
  [heap |-> h, value |-> state, threw |-> FALSE]

(* The result: the heap after the call, the value returned, whether the    *)
(* call threw.                                                             *)
shoppingListItemReducer(h, stateArg, action) ==
  LET d == DefaultState(h, stateArg)
  IN  CASE action.type = "GET_SHOPPING_LIST_ITEMS" ->
             CaseGetShoppingListItems(d.heap, d.state, action)
        [] action.type = "ADD_SHOPPING_LIST_ITEM" ->
             CaseAddShoppingListItem(d.heap, d.state, action)
        [] OTHER ->
             CaseDefault(d.heap, d.state, action)

(* The other definition of the reducer in the repository: its add branch   *)
(* is return [...state, {description: action.payload}].                    *)
CaseAddShoppingListItemDraft(h, state, action) ==
  IF Iterable(state)
  THEN [heap |-> Append(h, Append(Spread(h, state),
                                  [t |-> "object", description |-> action.payload])),
        value |-> Arr(Len(h) + 1), threw |-> FALSE]
  ELSE [heap |-> h, value |-> Undefined, threw |-> TRUE]

shoppingListItemReducerDraft(h, stateArg, action) ==
  LET d == DefaultState(h, stateArg)
  IN  CASE action.type = "GET_SHOPPING_LIST_ITEMS" ->
             CaseGetShoppingListItems(d.heap, d.state, action)
        [] action.type = "ADD_SHOPPING_LIST_ITEM" ->
             CaseAddShoppingListItemDraft(d.heap, d.state, action)
        [] OTHER ->
             CaseDefault(d.heap, d.state, action)

(* The reducer the store was created with.                                 *)
Reducer(h, stateArg, action) ==
  IF reducerDef = "unnamed/part_002"
  THEN shoppingListItemReducerDraft(h, stateArg, action)
  ELSE shoppingListItemReducer(h, stateArg, action)

---------------------------------------------------------------------------
(* connect(mapStateToProps, mapDispatchToProps)(App).                      *)

(* function mapStateToProps(state): {shoppingListItems: state.shoppingListItems} *)
mapStateToProps(state) == [shoppingListItems |-> state.shoppingListItems]

(* The observer connect subscribes when App is mounted; it stays           *)
(* subscribed.  The other observers are 1..MaxObservers.                   *)
Connected == 0

---------------------------------------------------------------------------
(* The store: dispatch, subscribe, unsubscribe.                            *)

(* One call of dispatch: the command, where the call stands, the observers *)
(* still to invoke, and what the caller handed over: the state, the heap   *)
(* and the observers at the time of the call, the action creator that      *)
(* built the command and what it was called with.                          *)
Frame(action, creator, arg, h) ==
  [action |-> action, pc |-> "reducing", pending |-> <<>>,
   startState |-> storeState, startHeap |-> h, startListeners |-> listeners,
   creator |-> creator, arg |-> arg]

(* Events are handled one at a time, each to completion: a new one is      *)
(* taken only when no dispatch is in progress.                             *)
Idle == stack = <<>>

(* No call of getState since the last dispatch.                            *)
NoRead == [value |-> Undefined, items |-> <<>>]

(* A command as it was handed to dispatch: its kind, its payload and, for  *)
(* a payload that is an array, the elements the array had at that time.    *)
Sent(action, h) ==
  [type |-> action.type, payload |-> action.payload,
   value |-> IF action.payload.t = "array" THEN h[action.payload.ref]
             ELSE action.payload]

(* dispatch(action): the call begins.  What becomes of the form's own      *)
(* state (inputValue, submitLog, typedSince) is for the caller to say.     *)
\* Faulty variant: a dispatch is taken while another is in progress.
dispatchReentrant(action, creator, arg, h) ==
  /\ Len(stack) < 2
  /\ nDispatch < MaxDispatch
  /\ nDispatch' = nDispatch + 1
  /\ heap' = IF stack = <<>> THEN h ELSE heap
  /\ stack' = <<Frame(action, creator, arg, IF stack = <<>> THEN h ELSE heap)>>
               \o stack
  /\ dispatched' = Append(dispatched, Sent(action, h))
  /\ got' = NoRead
  /\ UNCHANGED <<storeState, listeners, notified, unsubscribed, threw, reducerDef,
                 props>>

dispatch(action, creator, arg, h) ==
  /\ Idle
  /\ nDispatch < MaxDispatch
  /\ nDispatch' = nDispatch + 1
  /\ heap' = h
  /\ stack' = <<Frame(action, creator, arg, h)>> \o stack
  /\ dispatched' = Append(dispatched, Sent(action, h))
  /\ got' = NoRead
  /\ UNCHANGED <<storeState, listeners, notified, unsubscribed, threw, reducerDef,
                 props>>

(* The reducer computes the next state from the current one and the        *)
(* command; the store keeps it and goes on to its observers.  When the     *)
(* reducer throws, the state stays and no observer is invoked.             *)
Reduce ==
  /\ stack # <<>>
  /\ Head(stack).pc = "reducing"
  /\ LET f == Head(stack)
         r == Reducer(heap, storeState, f.action)
     IN  /\ heap' = r.heap
         /\ threw' = r.threw
         /\ storeState' = IF r.threw THEN storeState ELSE r.value
         /\ stack' = <<[f EXCEPT !.pc = IF r.threw THEN "threw" ELSE "notifying",
                                 !.pending = IF r.threw THEN <<>> ELSE listeners]>>
                      \o Tail(stack)
  /\ UNCHANGED <<listeners, notified, unsubscribed, inputValue, nDispatch,
                 reducerDef, props, submitLog, typedSince, dispatched, got>>

(* The next observer is invoked and reads the state.  connect's own        *)
(* observer runs mapStateToProps on it and hands App its new props.        *)
\* Faulty variant: the observers are invoked last to first.
NotifyLastFirst ==
  /\ stack # <<>>
  /\ Head(stack).pc = "notifying"
  /\ Head(stack).pending # <<>>
  /\ LET f == Head(stack)
         n == Len(f.pending)
     IN  /\ notified' = Append(notified,
                               [observer |-> f.pending[n], saw |-> storeState])
         /\ stack' = <<[f EXCEPT !.pending = SubSeq(f.pending, 1, n - 1)]>>
                      \o Tail(stack)
         /\ props' = IF f.pending[n] = Connected
                     THEN mapStateToProps([shoppingListItems |-> storeState])
                     ELSE props
  /\ UNCHANGED <<heap, storeState, listeners, unsubscribed, inputValue, threw,
                 nDispatch, reducerDef, submitLog, typedSince, dispatched, got>>

Notify ==
  /\ stack # <<>>
  /\ Head(stack).pc = "notifying"
  /\ Head(stack).pending # <<>>
  /\ LET f == Head(stack)
     IN  /\ notified' = Append(notified,
                               [observer |-> Head(f.pending), saw |-> storeState])
         /\ stack' = <<[f EXCEPT !.pending = Tail(f.pending)]>> \o Tail(stack)
         /\ props' = IF Head(f.pending) = Connected
                     THEN mapStateToProps([shoppingListItems |-> storeState])
                     ELSE props
  /\ UNCHANGED <<heap, storeState, listeners, unsubscribed, inputValue, threw,
                 nDispatch, reducerDef, submitLog, typedSince, dispatched, got>>

(* dispatch returns to its caller (or the reducer's exception reaches it). *)
Return ==
  /\ stack # <<>>
  /\ Head(stack).pc \in {"notifying", "threw"}
  /\ Head(stack).pending = <<>>
  /\ stack' = Tail(stack)
  /\ notified' = <<>>
  /\ UNCHANGED <<heap, storeState, listeners, unsubscribed, inputValue, threw,
                 nDispatch, reducerDef, props, submitLog, typedSince, dispatched,
                 got>>

InListeners(o) == \E i \in 1..Len(listeners) : listeners[i] = o

subscribe(o) ==
  /\ Idle
  /\ ~InListeners(o)
  /\ listeners' = Append(listeners, o)
  /\ unsubscribed' = unsubscribed \ {o}
  /\ UNCHANGED <<heap, storeState, stack, notified, inputValue, threw, nDispatch,
                 reducerDef, props, submitLog, typedSince, dispatched, got>>

\* Faulty variant: the observer stays among the listeners.
unsubscribeKeeps(o) ==
  /\ Idle
  /\ InListeners(o)
  /\ o \notin unsubscribed
  /\ unsubscribed' = unsubscribed \cup {o}
  /\ UNCHANGED <<heap, storeState, stack, listeners, notified, inputValue, threw,
                 nDispatch, reducerDef, props, submitLog, typedSince, dispatched,
                 got>>

unsubscribe(o) ==
  /\ Idle
  /\ InListeners(o)
  /\ listeners' = SelectSeq(listeners, LAMBDA x : x # o)
  /\ unsubscribed' = unsubscribed \cup {o}
  /\ UNCHANGED <<heap, storeState, stack, notified, inputValue, threw, nDispatch,
                 reducerDef, props, submitLog, typedSince, dispatched, got>>

---------------------------------------------------------------------------
(* The components.                                                         *)

(* The user types into <input className="form-control"/>.                  *)
TypeInput(text) ==
  /\ Idle
  /\ inputValue # text
  /\ inputValue' = text
  /\ typedSince' = TRUE
  /\ UNCHANGED <<heap, storeState, stack, listeners, notified, unsubscribed,
                 threw, nDispatch, reducerDef, props, submitLog, dispatched, got>>

(* App.createItem: this.props.actions.addShoppingListItem(itemDescription) *)
(* where bindActionCreators has wrapped the creator in a call of dispatch. *)
(* (Its debugger statement changes no state.)                              *)
\* Faulty variant: the item is pushed onto the array in props, past the store.
createItemPushes(itemDescription) ==
  /\ Idle
  /\ nDispatch < MaxDispatch
  /\ nDispatch' = nDispatch + 1
  /\ heap' = [heap EXCEPT ![props.shoppingListItems.ref] =
                 Append(@, [t |-> "object", description |-> itemDescription])]
  /\ UNCHANGED <<storeState, stack, listeners, notified, unsubscribed, threw,
                 reducerDef, props, dispatched, got>>

\* Faulty variant: the callback returns without dispatching.
createItemDrops(itemDescription) ==
  /\ Idle
  /\ nDispatch < MaxDispatch
  /\ nDispatch' = nDispatch + 1
  /\ UNCHANGED <<heap, storeState, stack, listeners, notified, unsubscribed,
                 threw, reducerDef, props, dispatched, got>>

createItem(itemDescription) ==
  dispatch(addShoppingListItem(itemDescription), "addShoppingListItem",
           itemDescription, heap)

(* Leading and trailing blanks removed, as String.prototype.trim does.     *)
Whitespace == {" "}

RECURSIVE TrimStart(_)
TrimStart(chars) ==
  IF chars # <<>> /\ Head(chars) \in Whitespace
  THEN TrimStart(Tail(chars)) ELSE chars

RECURSIVE TrimEnd(_)
TrimEnd(chars) ==
  IF chars # <<>> /\ chars[Len(chars)] \in Whitespace
  THEN TrimEnd(SubSeq(chars, 1, Len(chars) - 1)) ELSE chars

Trim(chars) == TrimEnd(TrimStart(chars))

\* Faulty variant: the value is trimmed before it is handed over.
triggerAddItemTrims ==
  LET newItem == Str(Trim(inputValue))
  IN  /\ createItem(newItem)
      /\ submitLog' = Append(submitLog,
                             [field |-> inputValue, typed |-> typedSince,
                              shown |-> heap[props.shoppingListItems.ref],
                              calls |-> 1, handed |-> newItem])
      /\ typedSince' = FALSE
      /\ UNCHANGED inputValue

\* Faulty variant: the input is emptied once its value is handed over.
triggerAddItemClears ==
  LET newItem == Str(inputValue)
  IN  /\ createItem(newItem)
      /\ submitLog' = Append(submitLog,
                             [field |-> inputValue, typed |-> typedSince,
                              shown |-> heap[props.shoppingListItems.ref],
                              calls |-> 1, handed |-> newItem])
      /\ typedSince' = FALSE
      /\ inputValue' = <<>>

(* NewItemForm.triggerAddItem: the form is submitted.  The value of the    *)
(* input is read and handed to this.props.addItem, which is App's          *)
(* createItem; the input itself is not written.                            *)
triggerAddItem ==
  LET newItem == Str(inputValue)
  IN  /\ createItem(newItem)
      /\ submitLog' = Append(submitLog,
                             [field |-> inputValue, typed |-> typedSince,
                              shown |-> heap[props.shoppingListItems.ref],
                              calls |-> 1, handed |-> newItem])
      /\ typedSince' = FALSE
      /\ UNCHANGED inputValue

(* The seed list is loaded.                                                *)
LoadItems ==
  LET c == getShoppingListItems(heap, Undefined)
  IN  /\ dispatch(c.action, "getShoppingListItems", Undefined, c.heap)
      /\ UNCHANGED <<inputValue, submitLog, typedSince>>

(* A command of a kind the reducer does not know reaches it: the store's   *)
(* own, or another reducer's.                                              *)
UnknownTypes == {"@@redux/INIT", "REMOVE_SHOPPING_LIST_ITEM"}

DispatchUnknown(type) ==
  /\ dispatch([type |-> type, payload |-> Undefined], "none", Undefined, heap)
  /\ UNCHANGED <<inputValue, submitLog, typedSince>>

(* getState(): the caller is handed the current state.                     *)
getState ==
  /\ Idle
  /\ got # [value |-> storeState, items |-> heap[storeState.ref]]
  /\ got' = [value |-> storeState, items |-> heap[storeState.ref]]
  /\ UNCHANGED <<heap, storeState, stack, listeners, notified, unsubscribed,
                 inputValue, threw, nDispatch, reducerDef, props, submitLog,
                 typedSince, dispatched>>

---------------------------------------------------------------------------
(* The store after its construction: the reducer has been called once,     *)
(* with no state and the store's own first command; App is mounted,        *)
(* connect has run mapStateToProps and subscribed its observer.            *)

Init ==
  LET r == shoppingListItemReducer(<<>>, Undefined,
                                   [type |-> "@@redux/INIT", payload |-> Undefined])
  IN  /\ heap = r.heap
      /\ storeState = r.value
      /\ stack = <<>>
      /\ listeners = <<Connected>>
      /\ notified = <<>>
      /\ unsubscribed = {}
      /\ inputValue = <<>>
      /\ threw = r.threw
      /\ nDispatch = 0
      /\ reducerDef = "reducers/shoppingListItemReducer.js"
      /\ props = mapStateToProps([shoppingListItems |-> r.value])
      /\ submitLog = <<>>
      /\ typedSince = FALSE
      /\ dispatched = <<>>
      /\ got = NoRead

Next ==
  \/ \E text \in Texts : TypeInput(text)
  \/ triggerAddItem
  \/ LoadItems
  \/ \E type \in UnknownTypes : DispatchUnknown(type)
  \/ Reduce
  \/ Notify
  \/ Return
  \/ \E o \in Observers : subscribe(o)
  \/ \E o \in Observers : unsubscribe(o)
  \/ getState

Spec == Init /\ [][Next]_vars

(* The same store and components, built on the reducer as the lesson's     *)
(* draft has it (unnamed/part_002).                                        *)
InitDraft ==
  LET r == shoppingListItemReducerDraft(<<>>, Undefined,
                                        [type |-> "@@redux/INIT",
                                         payload |-> Undefined])
  IN  /\ heap = r.heap
      /\ storeState = r.value
      /\ stack = <<>>
      /\ listeners = <<Connected>>
      /\ notified = <<>>
      /\ unsubscribed = {}
      /\ inputValue = <<>>
      /\ threw = r.threw
      /\ nDispatch = 0
      /\ reducerDef = "unnamed/part_002"
      /\ props = mapStateToProps([shoppingListItems |-> r.value])
      /\ submitLog = <<>>
      /\ typedSince = FALSE
      /\ dispatched = <<>>
      /\ got = NoRead

SpecDraft == InitDraft /\ [][Next]_vars

---------------------------------------------------------------------------
(* The reducer and the action creators as functions: one call, of the      *)
(* reducer on a state and a command drawn from bounded sets.  The state is *)
(* undefined (no prior state) or an array of at most MaxLen Items, or the  *)
(* seed list; the command is built by an action creator, or is a           *)
(* load-items command with any such array as payload, or is of a kind the  *)
(* reducer does not know.                                                  *)

ItemDomain ==
  { [t |-> "object", description |-> Str(chocolate)],
    [t |-> "object", description |-> Str(<<>>)],
    items[1] }

ItemArrays == UNION {[1..k -> ItemDomain] : k \in 0..MaxLen} \cup {items}

Descriptions == {Str(text) : text \in Texts}

LoadCommand(ref) == [type |-> "GET_SHOPPING_LIST_ITEMS", payload |-> Arr(ref)]

(* A caller about to call an action creator with arg, the command not yet  *)
(* built.                                                                  *)
Calling(creator, arg, h) ==
  [Frame(Undefined, creator, arg, h) EXCEPT !.pc = "creating"]

InitReducer ==
  /\ listeners = <<>>
  /\ notified = <<>>
  /\ unsubscribed = {}
  /\ inputValue = <<>>
  /\ threw = FALSE
  /\ nDispatch = 0
  /\ reducerDef = "reducers/shoppingListItemReducer.js"
  /\ props = [shoppingListItems |-> Undefined]
  /\ submitLog = <<>>
  /\ typedSince = FALSE
  /\ dispatched = <<>>
  /\ got = NoRead
  /\ \E prior \in {<<>>} \cup {<<S>> : S \in ItemArrays} :
       /\ storeState = IF prior = <<>> THEN Undefined ELSE Arr(1)
       /\ \/ \E x \in Descriptions :
               /\ heap = prior
               /\ stack = <<Calling("addShoppingListItem", x, prior)>>
          \/ \E passed \in {<<>>} \cup {<<L>> : L \in ItemArrays} :
               /\ heap = prior \o passed
               /\ stack = <<Calling("getShoppingListItems",
                                    IF passed = <<>> THEN Undefined
                                    ELSE Arr(Len(prior) + 1),
                                    prior \o passed)>>
          \/ \E L \in ItemArrays :
               /\ heap = Append(prior, L)
               /\ stack = <<Frame(LoadCommand(Len(prior) + 1), "none", Undefined,
                                  Append(prior, L))>>
          \/ \E type \in UnknownTypes, payload \in {Undefined} \cup ItemDomain :
               /\ heap = prior
               /\ stack = <<Frame([type |-> type, payload |-> payload], "none",
                                  Undefined, prior)>>

(* The caller calls the action creator and hands the command it returns to *)
(* the reducer.                                                            *)
Create ==
  /\ stack # <<>>
  /\ Head(stack).pc = "creating"
  /\ LET f == Head(stack)
         c == IF f.creator = "addShoppingListItem"
              THEN [heap |-> heap, action |-> addShoppingListItem(f.arg)]
              ELSE getShoppingListItems(heap, f.arg)
     IN  /\ heap' = c.heap
         /\ stack' = <<[f EXCEPT !.action = c.action, !.startHeap = c.heap,
                                 !.pc = "reducing"]>> \o Tail(stack)
  /\ UNCHANGED <<storeState, listeners, notified, unsubscribed, inputValue, threw,
                 nDispatch, reducerDef, props, submitLog, typedSince, dispatched,
                 got>>

ReducerSpec == InitReducer /\ [][Create \/ Reduce]_vars

---------------------------------------------------------------------------
(* What the claims speak of. *)

(* The action creator has been called and has built the command. *)
Created(f) == f.pc # "creating"

(* The reducer has been called for the dispatch in progress. *)
Called == stack # <<>> /\ Head(stack).pc \in {"notifying", "threw"}

(* The reducer has returned a state, which the store holds. *)
Reduced == stack # <<>> /\ Head(stack).pc = "notifying"

(* The sequence the reducer was called with, when it was called with one. *)
StartItems == Head(stack).startHeap[Head(stack).startState.ref]

(* Every array that existed when the reducer was called is as it was. *)
HeapKept ==
  /\ Len(heap) >= Len(Head(stack).startHeap)
  /\ \A r \in 1..Len(Head(stack).startHeap) : heap[r] = Head(stack).startHeap[r]

---------------------------------------------------------------------------
(* C1: the reducer applied to a sequence S and the command the add-item    *)
(* action creator builds for x gives a sequence of length Len(S) + 1, its  *)
(* first Len(S) elements those of S in order, its last {description: x}.   *)
C1_AddAppends ==
  (Called /\ Head(stack).creator = "addShoppingListItem"
          /\ Head(stack).startState # Undefined)
  => /\ ~threw
     /\ storeState.t = "array"
     /\ Len(heap[storeState.ref]) = Len(StartItems) + 1
     /\ \A i \in 1..Len(StartItems) : heap[storeState.ref][i] = StartItems[i]
     /\ heap[storeState.ref][Len(StartItems) + 1] =
          [t |-> "object", description |-> Head(stack).arg]

C1_Witness ==
  /\ Reduced
  /\ Head(stack).creator = "addShoppingListItem"
  /\ Head(stack).arg = Str(chocolate)
  /\ Head(stack).startState # Undefined
  /\ StartItems = items
  /\ Len(heap[storeState.ref]) = 4

(* C2: the reducer applied to S and an add-item command leaves S as it     *)
(* was, for whoever still holds it, and returns another array.             *)
C2_AddKeepsPrior ==
  (Called /\ Head(stack).action.type = "ADD_SHOPPING_LIST_ITEM"
          /\ Head(stack).startState # Undefined)
  => /\ HeapKept
     /\ heap[Head(stack).startState.ref] = StartItems
     /\ storeState # Head(stack).startState

C2_Witness ==
  /\ Reduced
  /\ Head(stack).action.type = "ADD_SHOPPING_LIST_ITEM"
  /\ Head(stack).startState # Undefined
  /\ Len(StartItems) = 2
  /\ heap[Head(stack).startState.ref] = StartItems
  /\ Len(heap[storeState.ref]) = 3

(* C3: the reducer applied to any state and a load-items command with      *)
(* payload L gives L itself, whatever the state was.                       *)
C3_LoadReplaces ==
  (Called /\ Head(stack).action.type = "GET_SHOPPING_LIST_ITEMS")
  => /\ ~threw
     /\ storeState = Head(stack).action.payload
     /\ heap[storeState.ref] = Head(stack).startHeap[Head(stack).action.payload.ref]

C3_Witness ==
  /\ Reduced
  /\ Head(stack).action.type = "GET_SHOPPING_LIST_ITEMS"
  /\ Head(stack).startState # Undefined
  /\ Len(StartItems) = 2
  /\ Len(heap[storeState.ref]) = 1
  /\ heap[storeState.ref][1] # StartItems[1]
  /\ heap[storeState.ref][1] # StartItems[2]

(* C4: for a command of neither kind the reducer returns the state it was  *)
(* given, unchanged; and the reducer throws for no command.                *)
C4_UnknownIsIdentity ==
  /\ ~threw
  /\ (Called /\ Head(stack).action.type \notin
                  {"GET_SHOPPING_LIST_ITEMS", "ADD_SHOPPING_LIST_ITEM"}
             /\ Head(stack).startState # Undefined)
     => /\ storeState = Head(stack).startState
        /\ heap[storeState.ref] = StartItems

C4_Witness ==
  /\ Reduced
  /\ Head(stack).action.type = "REMOVE_SHOPPING_LIST_ITEM"
  /\ Head(stack).action.payload # Undefined
  /\ Head(stack).startState # Undefined
  /\ Len(StartItems) = 2
  /\ storeState = Head(stack).startState

(* C5: called with no state, the reducer behaves as on the empty sequence: *)
(* a command of an unknown kind gives the empty sequence, an add-item      *)
(* command the sequence of the new item alone.                             *)
C5_NoPriorStateIsEmpty ==
  (Called /\ Head(stack).startState = Undefined)
  => /\ ~threw
     /\ storeState.t = "array"
     /\ Head(stack).action.type \in UnknownTypes
          => heap[storeState.ref] = <<>>
     /\ Head(stack).action.type = "ADD_SHOPPING_LIST_ITEM"
          => heap[storeState.ref] = <<Head(stack).action.payload>>

C5_Witness ==
  /\ Reduced
  /\ Head(stack).startState = Undefined
  /\ Head(stack).action.type = "ADD_SHOPPING_LIST_ITEM"
  /\ heap[storeState.ref] = <<[t |-> "object", description |-> Str(chocolate)]>>

(* C6: the add-item action creator called with d returns a command of the  *)
(* add-item kind whose payload is the Item {description: d}, not d.        *)
C6_AddCreatorWraps ==
  \A i \in 1..Len(stack) :
    (Created(stack[i]) /\ stack[i].creator = "addShoppingListItem")
    => /\ stack[i].action.type = "ADD_SHOPPING_LIST_ITEM"
       /\ stack[i].action.payload.t = "object"
       /\ stack[i].action.payload = [t |-> "object", description |-> stack[i].arg]

C6_Witness ==
  /\ stack # <<>>
  /\ Created(Head(stack))
  /\ Head(stack).creator = "addShoppingListItem"
  /\ Head(stack).arg = Str(<<" ">> \o chocolate \o <<" ">>)
  /\ Head(stack).action.payload.description = Head(stack).arg

(* C7: the load-items action creator called with items returns a command  *)
(* of the load-items kind whose payload is items.                          *)
C7_LoadCreatorKeepsItems ==
  \A i \in 1..Len(stack) :
    (Created(stack[i]) /\ stack[i].creator = "getShoppingListItems"
                       /\ stack[i].arg # Undefined)
    => /\ stack[i].action.type = "GET_SHOPPING_LIST_ITEMS"
       /\ stack[i].startHeap[stack[i].action.payload.ref] =
            stack[i].startHeap[stack[i].arg.ref]

(* The observers invoked so far, in the order of their invocation. *)
NotifiedObservers == [i \in 1..Len(notified) |-> notified[i].observer]

(* The dispatch in progress has invoked its observers and is to return. *)
Returning == Reduced /\ Head(stack).pending = <<>>

(* C8: at most one command is being processed; from the call of dispatch   *)
(* to the reducer's call nothing changes the state, and from then until    *)
(* dispatch returns the state is what the reducer gives for the state at   *)
(* the call and this command.                                              *)
C8_DispatchAtomic ==
  /\ Len(stack) <= 1
  /\ stack # <<>> =>
       LET f == Head(stack)
           r == shoppingListItemReducer(f.startHeap, f.startState, f.action)
       IN  /\ f.pc = "reducing" => (storeState = f.startState /\ heap = f.startHeap)
           /\ f.pc = "notifying" => (storeState = r.value /\ heap = r.heap)

C8_Witness ==
  /\ Returning
  /\ nDispatch = 3
  /\ Head(stack).action.type = "ADD_SHOPPING_LIST_ITEM"
  /\ Len(notified) = 2
  /\ storeState # Head(stack).startState
  /\ Len(heap[storeState.ref]) = 4

(* C9: the observers subscribed when dispatch was called are invoked once  *)
(* each, in the order of their subscription, and none before the new state *)
(* is stored: each reads the new state.                                    *)
C9_ObserversOnceInOrder ==
  stack # <<>> =>
    LET f == Head(stack)
        r == shoppingListItemReducer(f.startHeap, f.startState, f.action)
    IN  /\ f.pc = "reducing" => notified = <<>>
        /\ f.pc = "notifying" =>
             /\ NotifiedObservers \o f.pending = f.startListeners
             /\ \A i \in 1..Len(notified) :
                  notified[i].saw = storeState /\ notified[i].saw = r.value

C9_Witness ==
  /\ Returning
  /\ Head(stack).startListeners = <<Connected, 2, 1>>
  /\ Len(notified) = 3
  /\ notified[2].observer = 2
  /\ notified[3].observer = 1
  /\ notified[3].saw = storeState
  /\ storeState # Head(stack).startState

(* C10: an observer that has unsubscribed is not invoked by any dispatch   *)
(* that begins afterwards, and those still subscribed are invoked once     *)
(* each.                                                                   *)
C10_UnsubscribedNotInvoked ==
  /\ \A i \in 1..Len(notified) : notified[i].observer \notin unsubscribed
  /\ Returning =>
       \A o \in Observers :
         InListeners(o) =>
           Cardinality({i \in 1..Len(notified) : notified[i].observer = o}) = 1

C10_Witness ==
  /\ Returning
  /\ unsubscribed = {1}
  /\ listeners = <<Connected, 2>>
  /\ Len(notified) = 2
  /\ notified[2].observer = 2
  /\ nDispatch >= 2

(* C11: the stored state changes only by a dispatch: as long as none has   *)
(* begun since getState returned a value, whatever else has happened       *)
(* (subscribe, unsubscribe, getState, typing), the state is that value,    *)
(* with the same elements, which is what the next getState returns.        *)
C11_StateChangesOnlyByDispatch ==
  got # NoRead =>
    /\ got.value = storeState
    /\ got.items = heap[storeState.ref]

C11_Witness ==
  /\ Idle
  /\ got # NoRead
  /\ got.value = storeState
  /\ Len(got.items) = 4
  /\ Len(listeners) = 2
  /\ unsubscribed # {}
  /\ typedSince

(* The last submission of the form. *)
LastSubmit == submitLog[Len(submitLog)]

(* The dispatch in progress was begun by the form's last submission. *)
Submitting ==
  /\ stack # <<>>
  /\ Head(stack).creator = "addShoppingListItem"
  /\ submitLog # <<>>

(* C12, as claimed: on every submission the callback is invoked with the   *)
(* trimmed value of the text field.                                        *)
C12_CallbackGetsTrimmed ==
  \A i \in 1..Len(submitLog) :
    submitLog[i].handed = Str(Trim(submitLog[i].field))

(* C12, amended: on every submission the callback is invoked with the      *)
(* value of the text field exactly as it stands, blanks included, and that *)
(* value is what the add-item action creator is called with.               *)
C12_CallbackGetsRawValue ==
  /\ \A i \in 1..Len(submitLog) : submitLog[i].handed = Str(submitLog[i].field)
  /\ Submitting =>
       /\ Head(stack).arg = Str(LastSubmit.field)
       /\ Head(stack).action.payload.description = Str(LastSubmit.field)

C12_Witness ==
  /\ Submitting
  /\ Reduced
  /\ LastSubmit.field = <<" ">> \o chocolate \o <<" ">>
  /\ Trim(LastSubmit.field) = chocolate
  /\ Head(stack).arg = Str(<<" ">> \o chocolate \o <<" ">>)
  /\ heap[storeState.ref][Len(heap[storeState.ref])].description =
       Str(<<" ">> \o chocolate \o <<" ">>)

(* C13: a submission with an empty text field is rejected in the form: the *)
(* callback is not invoked, no add-item command with an empty description  *)
(* is dispatched, and no item with an empty description enters the state.  *)
C13_EmptyRejected ==
  /\ \A i \in 1..Len(submitLog) :
       submitLog[i].field = <<>> => submitLog[i].calls = 0
  /\ \A i \in 1..Len(dispatched) :
       dispatched[i].type = "ADD_SHOPPING_LIST_ITEM"
         => dispatched[i].payload.description # Str(<<>>)
  /\ \A i \in 1..Len(heap[storeState.ref]) :
       heap[storeState.ref][i].description # Str(<<>>)

(* C14, as claimed: once a submission has handed the text over, the input  *)
(* is empty, and a following submission with no typing in between captures *)
(* the empty value.                                                        *)
C14_InputCleared ==
  /\ (submitLog # <<>> /\ ~typedSince) => inputValue = <<>>
  /\ \A i \in 2..Len(submitLog) :
       ~submitLog[i].typed => submitLog[i].field = <<>>

(* C14, amended: a submission leaves the input as it is, and a following   *)
(* submission with no typing in between captures the same text again.      *)
C14_InputKept ==
  /\ (submitLog # <<>> /\ ~typedSince) => inputValue = LastSubmit.field
  /\ \A i \in 2..Len(submitLog) :
       ~submitLog[i].typed => submitLog[i].field = submitLog[i - 1].field

C14_Witness ==
  /\ Idle
  /\ Len(submitLog) = 2
  /\ submitLog[1].field = chocolate
  /\ ~submitLog[2].typed
  /\ submitLog[2].field = chocolate
  /\ inputValue = chocolate
  /\ heap[storeState.ref] = << [t |-> "object", description |-> Str(chocolate)],
                               [t |-> "object", description |-> Str(chocolate)] >>

(* The items in the state. *)
StateItems == {heap[storeState.ref][i] : i \in 1..Len(heap[storeState.ref])}

(* The reducer is about to be called with a load-items command. *)
LoadReducing ==
  /\ stack # <<>>
  /\ Head(stack).pc = "reducing"
  /\ Head(stack).action.type = "GET_SHOPPING_LIST_ITEMS"

(* C15, as claimed: no item is ever deleted: an item in the state is in    *)
(* the state after every later step, whatever command is dispatched.       *)
C15_NoItemDeleted ==
  [][\A x \in StateItems : x \in StateItems']_vars

(* C15, amended: an item in the state stays in the state through every     *)
(* add-item command and every command of an unknown kind; a load-items     *)
(* command replaces the state by its payload, so that the items of the     *)
(* state after it are those of the payload and no others.                  *)
C15_ItemsKeptUnlessLoad ==
  [][IF LoadReducing
     THEN heap'[storeState'.ref] = heap[Head(stack).action.payload.ref]
     ELSE \A x \in StateItems : x \in StateItems']_vars

C15_Witness ==
  /\ Reduced
  /\ Len(dispatched) = 3
  /\ dispatched[1].type = "ADD_SHOPPING_LIST_ITEM"
  /\ dispatched[1].payload.description = Str(<<>>)
  /\ dispatched[2].type = "GET_SHOPPING_LIST_ITEMS"
  /\ dispatched[3].type = "ADD_SHOPPING_LIST_ITEM"
  /\ StartItems = items
  /\ dispatched[1].payload \notin StateItems
  /\ \A i \in 1..Len(items) : items[i] \in StateItems
  /\ dispatched[3].payload \in StateItems

(* The commands the reducer has been called for so far. *)
Processed ==
  IF stack # <<>> /\ Head(stack).pc = "reducing"
  THEN SubSeq(dispatched, 1, Len(dispatched) - 1)
  ELSE dispatched

(* The place in log of the most recent load-items command, 0 without one. *)
LastLoad(log) ==
  IF \E i \in 1..Len(log) : log[i].type = "GET_SHOPPING_LIST_ITEMS"
  THEN CHOOSE i \in 1..Len(log) :
         /\ log[i].type = "GET_SHOPPING_LIST_ITEMS"
         /\ \A j \in (i + 1)..Len(log) : log[j].type # "GET_SHOPPING_LIST_ITEMS"
  ELSE 0

(* The payloads of the add-item commands of log, in order. *)
RECURSIVE Added(_)
Added(log) ==
  IF log = <<>> THEN <<>>
  ELSE IF Head(log).type = "ADD_SHOPPING_LIST_ITEM"
       THEN <<Head(log).value>> \o Added(Tail(log))
       ELSE Added(Tail(log))

(* The payload of the most recent load-items command of log, then the      *)
(* payloads of the add-item commands after it.                             *)
Expected(log) ==
  LET k == LastLoad(log)
  IN  (IF k = 0 THEN <<>> ELSE log[k].value)
        \o Added(SubSeq(log, k + 1, Len(log)))

(* C16: after any sequence of dispatched commands from the empty state,    *)
(* the state is the payload of the most recent load-items command (empty   *)
(* without one) followed by the payloads of the add-item commands after    *)
(* it, in dispatch order; loading the seed list and adding "chocolate"     *)
(* gives milk, cookies, sprinkles, chocolate.                              *)
C16_StateIsFoldOfCommands ==
  /\ storeState.t = "array"
  /\ heap[storeState.ref] = Expected(Processed)
  /\ (/\ Len(Processed) = 2
      /\ Processed[1].type = "GET_SHOPPING_LIST_ITEMS"
      /\ Processed[1].value = items
      /\ Processed[2].type = "ADD_SHOPPING_LIST_ITEM"
      /\ Processed[2].value = [t |-> "object", description |-> Str(chocolate)])
     => heap[storeState.ref] =
          items \o <<[t |-> "object", description |-> Str(chocolate)]>>

C16_Witness ==
  /\ Idle
  /\ Len(dispatched) = 3
  /\ dispatched[1].type = "ADD_SHOPPING_LIST_ITEM"
  /\ dispatched[2].type = "GET_SHOPPING_LIST_ITEMS"
  /\ dispatched[3].type = "ADD_SHOPPING_LIST_ITEM"
  /\ dispatched[3].value = [t |-> "object", description |-> Str(chocolate)]
  /\ LastLoad(dispatched) = 2
  /\ heap[storeState.ref] =
       items \o <<[t |-> "object", description |-> Str(chocolate)]>>

(* C17: each submission of the form with text t invokes the callback once; *)
(* the form hands over the text, never a command; each invocation          *)
(* dispatches one add-item command, for {description: t}; and once the     *)
(* dispatch has returned, the items App passes to the list are those shown *)
(* before the submission followed by {description: t}.                     *)
C17_SubmissionAddsOneItem ==
  /\ \A i \in 1..Len(submitLog) :
       /\ submitLog[i].calls = 1
       /\ submitLog[i].handed.t = "string"
  /\ Len(Added(dispatched)) = Len(submitLog)
  /\ \A i \in 1..Len(submitLog) :
       i <= Len(Added(dispatched)) =>
         Added(dispatched)[i] = [t |-> "object", description |-> submitLog[i].handed]
  /\ (/\ Idle
      /\ dispatched # <<>>
      /\ dispatched[Len(dispatched)].type = "ADD_SHOPPING_LIST_ITEM"
      /\ submitLog # <<>>)
     => /\ props.shoppingListItems.t = "array"
        /\ heap[props.shoppingListItems.ref] =
             Append(LastSubmit.shown,
                    [t |-> "object", description |-> Str(LastSubmit.field)])

C17_Witness ==
  /\ Idle
  /\ Len(dispatched) = 2
  /\ dispatched[2].type = "ADD_SHOPPING_LIST_ITEM"
  /\ Len(submitLog) = 1
  /\ LastSubmit.field = chocolate
  /\ LastSubmit.shown = items
  /\ LastSubmit.calls = 1
  /\ heap[props.shoppingListItems.ref] =
       Append(items, [t |-> "object", description |-> Str(chocolate)])

(* C18: whichever reducer of the repository the store is built on, every   *)
(* element of every state reached by the action creators' commands is an   *)
(* Item whose description is a string: not a bare string, not an Item      *)
(* inside an Item's description.                                           *)
C18_ItemsHaveStringDescription ==
  /\ storeState.t = "array"
  /\ \A i \in 1..Len(heap[storeState.ref]) :
       /\ heap[storeState.ref][i].t = "object"
       /\ heap[storeState.ref][i].description.t = "string"

=============================================================================
